---- MODULE Spec2Model ----
(***************************************************************************)
(* Battery Guardian (src/App.tsx, src/services/telegramService.ts).        *)
(*                                                                         *)
(* The App component keeps the monitoring flag, the settings, the set of   *)
(* already notified thresholds (sentThresholdsRef) and the log.  Every      *)
(* render in which checkAndNotify changed (a toggle or a settings edit)    *)
(* runs the battery effect again: it evaluates the current battery reading *)
(* once and registers one more pair of listeners on the BatteryManager.    *)
(* The effect returns no cleanup, so listeners of earlier renders stay     *)
(* registered with the isMonitoring/settings values their closure          *)
(* captured.                                                               *)
(*                                                                         *)
(* One step of the model is one task of the browser's event loop: a click, *)
(* an input change, a battery event dispatched to all its listeners, or    *)
(* the arrival of a fetch response.  A checkAndNotify call runs up to its  *)
(* await; when sendTelegramMessage returns without fetching, the rest of   *)
(* the call runs in the microtask checkpoint that follows the listener,    *)
(* hence inside the same step and before the next listener.                *)
(***************************************************************************)
EXTENDS Integers, Sequences, FiniteSets, TLC

\* ---------------------------------------------------------------- bounds
MaxListeners == 4     \* checkAndNotify closures registered on the manager
MaxTests     == 2     \* test button handlers suspended at one time
MaxLoop      == 30    \* iterations of the loop of line 89 that are followed
MaxClock     == 2     \* milliseconds that Date.now() advances in one behaviour
MaxAttempts  == 2     \* Notifier calls initiated in one behaviour

\* ------------------------------------------------------ program constants
LogCap == 50          \* .slice(0, 50)

\* --------------------------------------------------------- input domains
\* battery levels in thousandths (m.level = Level / 1000)
Levels            == {300, 280, 244, 186}
Tokens            == {"", "tok"}
ChatIds           == {"", "chat"}
\* how a fetch can end: a response with response.ok, a response without, or
\* a rejected promise
FetchOutcomes     == {"2xx", "non2xx", "exception"}

VARIABLES
  isMonitoring,   \* useState(false)
  settings,       \* useState<AppSettings>
  m,              \* the BatteryManager: [level, charging]
  listeners,      \* closures registered by addEventListener, oldest first
  sent,           \* sentThresholdsRef.current
  logs,           \* useState<NotificationLog[]>, newest first
  inflight,       \* checkAndNotify calls suspended at the await of line 97
  mounted,        \* the App component is mounted
  hung,           \* a checkAndNotify call is in the loop of line 89 for good
  hasWakeLock,    \* 'wakeLock' in navigator
  wakeLockRef,    \* wakeLockRef.current: 0 for null, else the handle
  wakeLockActive, \* useState(false), line 28
  pendingLocks,   \* requestWakeLock calls suspended at the await of line 59,
                  \* each named by its number
  held,           \* the handles acquired and not released; request k is
                  \* granted handle k
  nRequested,     \* requestWakeLock calls that reached line 59 so far
  crashed,        \* an exception left an effect or its cleanup
  testPending,    \* test button handlers suspended at the await of line 267
  lastAlert,      \* what the last alert() of the test button said
  \* history (observation only, never read by the program's steps)
  nAttempts,      \* Notifier calls initiated so far
  cycleFired,     \* thresholds with an attempt since the last dedupe reset
  cycleDup,       \* thresholds with more than one attempt since that reset
  lastOp,         \* kind of the last step
  lastEvals,      \* the checkAndNotify calls of the last step, in order;
                  \* sentBefore is the set the scan of line 95 read ({} for
                  \* a call that returned at line 84, which reads nothing)
  cycMono,        \* the cycle so far is a one-at-a-time monotone discharge
  scen,           \* progress through the discharge scenario 30, 28, 24, 19
  preCharge,      \* thresholds fired in the cycle that charging just ended
  lateDone,       \* those of preCharge whose delivery returned after that
  recross,        \* the first non-charging sample after a charging one
  armedFired,     \* thresholds fired while Armed since the last reset or arm
  standbyClean,   \* Standby entered by a disarm, no charging sample since
  nDone,          \* Log Entries appended so far
  lastResult,     \* the attempt logged last and what its Notifier call returned
  cycleFailed,    \* thresholds whose Notifier call failed since the last reset
  storage,        \* localStorage's item STORAGE_KEY
  discarded,      \* history: what the last restart found and did not keep
  now,            \* what Date.now() returns, in ms since the mount
  traced,         \* whether this behaviour keeps the history of single
                  \* attempts: their numbers (seq) and cycleFailed
  lockFailed,     \* Armed, and the acquisition requested by this arm was
                  \* denied
  lastFetch       \* how the request that settled in the last step ended
                  \* ("none" in other steps and in untraced behaviours)

\* the Crossing Detector's state and its history, but for lastOp, lastEvals
detVars == <<isMonitoring, settings, m, listeners, sent, logs, inflight,
             nAttempts, cycleFired, cycleDup, cycMono,
             scen, preCharge, lateDone, recross, armedFired, standbyClean,
             nDone, lastResult, cycleFailed, traced, now, storage,
             discarded>>

\* detVars but for now
detButNow == <<isMonitoring, settings, m, listeners, sent, logs, inflight,
               nAttempts, cycleFired, cycleDup, cycMono,
               scen, preCharge, lateDone, recross, armedFired, standbyClean,
               nDone, lastResult, cycleFailed, traced, storage, discarded>>

\* detVars but for logs
detButLogs == <<isMonitoring, settings, m, listeners, sent, inflight,
                nAttempts, cycleFired, cycleDup, cycMono,
                scen, preCharge, lateDone, recross, armedFired, standbyClean,
                nDone, lastResult, cycleFailed, traced, now, storage,
             discarded>>

wakeVars == <<hasWakeLock, wakeLockRef, wakeLockActive, pendingLocks, held,
              nRequested, crashed, lockFailed>>

testVars == <<testPending, lastAlert>>

vars == <<detVars, lastOp, lastEvals, lastFetch, mounted, hung, wakeVars,
          testVars>>

\* ------------------------------------------------------------- settings
DefaultSettings ==
  [initialThreshold |-> 25, interval |-> 5, finalThreshold |-> 1,
   telegramToken |-> "", telegramChatId |-> ""]

\* what localStorage holds (lines 11-12) once the user has entered the chat id
\* and, possibly, the token
SavedSettings ==
  { [DefaultSettings EXCEPT !.telegramToken = tk, !.telegramChatId = "chat"] :
      tk \in Tokens }

\* what the two number inputs are set to, and the finalThreshold that
\* localStorage holds (no input edits it)
Starts == {25, 1}
Steps  == {5, 24, 0, -5}
Floors == {1, 28}

ConfigSpace ==
  {[DefaultSettings EXCEPT !.initialThreshold = a, !.interval = b,
                           !.finalThreshold = f, !.telegramChatId = "chat"] :
     a \in Starts, b \in Steps, f \in Floors}

\* ------------------------------------------------------ pure functions
\* JSON.stringify(settings), line 34: the fields in the order of the object,
\* as a sequence of their values
Stringify(cfg) ==
  <<cfg.telegramToken, cfg.telegramChatId, cfg.initialThreshold,
    cfg.interval, cfg.finalThreshold>>

\* JSON.parse(saved), line 12
Parse(saved) ==
  [telegramToken |-> saved[1], telegramChatId |-> saved[2],
   initialThreshold |-> saved[3], interval |-> saved[4],
   finalThreshold |-> saved[5]]

LoadedDefaults(saved) == DefaultSettings

\* lines 11-12: saved ? JSON.parse(saved) : the defaults
Loaded(saved) == IF saved = <<>> THEN DefaultSettings ELSE Parse(saved)

\* Math.round(level * 100), level given in thousandths
Round100(level) == (level + 5) \div 10

RECURSIVE GenerateInclusive(_, _, _, _)
GenerateInclusive(t, final, interval, fuel) ==
  IF t >= final /\ fuel > 0
  THEN <<t>> \o GenerateInclusive(t - interval, final, interval, fuel - 1)
  ELSE <<>>

RECURSIVE Generate(_, _, _, _)
\* for (let t = initial; t > final; t -= interval) thresholds.push(t),
\* followed for at most fuel iterations
Generate(t, final, interval, fuel) ==
  IF t > final /\ fuel > 0
  THEN <<t>> \o Generate(t - interval, final, interval, fuel - 1)
  ELSE <<>>

RECURSIVE LoopEnds(_, _, _, _)
\* the condition t > final of line 89 turns false within fuel iterations
LoopEnds(t, final, interval, fuel) ==
  IF t > final
  THEN fuel > 0 /\ LoopEnds(t - interval, final, interval, fuel - 1)
  ELSE TRUE

\* The loop of line 89 ends.  Every configuration of the model whose loop
\* ends at all needs fewer than MaxLoop iterations; with an interval of 0 or
\* less t never gets smaller, and the loop pushes values until the tab runs
\* out of memory.
Terminates(cfg) ==
  LoopEnds(cfg.initialThreshold, cfg.finalThreshold, cfg.interval, MaxLoop)

RECURSIVE InsertDesc(_, _)
InsertDesc(x, s) ==
  IF s = <<>> THEN <<x>>
  ELSE IF x >= Head(s) THEN <<x>> \o s
  ELSE <<Head(s)>> \o InsertDesc(x, Tail(s))

Unsorted(s) == s

RECURSIVE SortDesc(_)
\* thresholds.sort((a, b) => b - a)
SortDesc(s) == IF s = <<>> THEN <<>> ELSE InsertDesc(Head(s), SortDesc(Tail(s)))

\* lines 88-92
Thresholds(cfg) ==
  SortDesc(<<cfg.finalThreshold>>
           \o Generate(cfg.initialThreshold, cfg.finalThreshold, cfg.interval,
                       MaxLoop))

RECURSIVE SelectedAll(_, _, _)
SelectedAll(ts, percentage, sentSet) ==
  IF ts = <<>> THEN <<>>
  ELSE IF percentage <= Head(ts) /\ Head(ts) \notin sentSet
       THEN <<Head(ts)>> \o SelectedAll(Tail(ts), percentage, sentSet)
       ELSE SelectedAll(Tail(ts), percentage, sentSet)

RECURSIVE Selected(_, _, _)
\* the scan of lines 94-110: the first t that matches, then break
Selected(ts, percentage, sentSet) ==
  IF ts = <<>> THEN <<>>
  ELSE IF percentage <= Head(ts) /\ Head(ts) \notin sentSet
       THEN <<Head(ts)>>
       ELSE Selected(Tail(ts), percentage, sentSet)

ClearedKeep(s) == s

\* sentThresholdsRef.current.clear()
Cleared(s) == {}

AppendLogNoCap(prev, entry) == <<entry>> \o prev

AppendLogTail(prev, entry) == SubSeq(prev \o <<entry>>, 1,
                                     IF Len(prev) + 1 > LogCap THEN LogCap
                                     ELSE Len(prev) + 1)

AppendLogOverwriting(prev, entry) ==
  IF prev = <<>> THEN <<entry>> ELSE <<entry>> \o Tail(prev)

\* [entry, ...prev].slice(0, 50)
AppendLog(prev, entry) == SubSeq(<<entry>> \o prev, 1,
                                 IF Len(prev) + 1 > LogCap THEN LogCap
                                 ELSE Len(prev) + 1)

ReturnedUnlessThrown(outcome) == outcome # "exception"

\* telegramService.ts lines 22-26: what sendTelegramMessage returns once its
\* fetch has ended: response.ok, or false from the catch block
Returned(outcome) == outcome = "2xx"

sendTelegramMessageTokenOnly(token, chatId) ==
  IF token = "" THEN "false" ELSE "fetch"

\* sendTelegramMessage up to its first suspension: "false" when it returns
\* without a request, "fetch" when the request is under way
sendTelegramMessage(token, chatId) ==
  IF token = "" \/ chatId = "" THEN "false" ELSE "fetch"

LogEntryFlip(percentage, t, success) ==
  [level |-> percentage, threshold |-> t,
   status |-> IF success THEN "failed" ELSE "sent"]

LogEntryAtReturn(percentage, t, success) ==
  [level |-> Round100(m.level), threshold |-> t,
   status |-> IF success THEN "sent" ELSE "failed"]

\* lines 99-105: level: percentage, message: `Порог ${t}% достигнут.`
LogEntry(percentage, t, success) ==
  [level |-> percentage, threshold |-> t,
   status |-> IF success THEN "sent" ELSE "failed"]

\* an entry with the numbers history gives it: seq, the number of the attempt
\* it belongs to (in order of initiation), and done, the number of the append
Stamped(entry, seq, done) ==
  [level |-> entry.level, threshold |-> entry.threshold,
   status |-> entry.status, seq |-> seq, done |-> done]

\* line 100, id: Date.now().toString(): the entry gets the clock reading of
\* the moment its call resumes; the decimal string of a number is kept as
\* the number, two readings having the same string iff they are equal
Identified(entry, clock) ==
  [level |-> entry.level, threshold |-> entry.threshold,
   status |-> entry.status, seq |-> entry.seq, done |-> entry.done,
   id |-> clock]

SeqToSet(s) == { s[i] : i \in 1..Len(s) }

\* ------------------------------------------------- checkAndNotify
\* The record st threads what one step reads and writes:
\*   sent, logs, inflight, hung, and the history n, cf, cd, evals, nd, lr,
\*   cfail.

\* lines 99-107: the part of checkAndNotify after the await, for the
\* suspended call d = [t, level, seq, cur]
Resume(d, success, st) ==
  [st EXCEPT !.logs = AppendLog(@, Identified(
                                     Stamped(LogEntry(d.level, d.t, success),
                                             d.seq, st.nd + 1), now)),
             !.sent = @ \cup {d.t},
             !.nd = @ + 1,
             !.lr = [done |-> st.nd + 1, success |-> success],
             !.cfail = IF traced /\ ~success /\ d.cur THEN @ \cup {d.t}
                      ELSE @]

\* lines 96-97 for the selected t, then either the suspension or the rest
Fire(t, percentage, c, st) ==
  LET st1 == [st EXCEPT !.n  = @ + 1,
                        !.cd = IF t \in st.cf THEN @ \cup {t} ELSE @,
                        !.cf = @ \cup {t}]
  IN IF sendTelegramMessage(c.settings.telegramToken,
                            c.settings.telegramChatId) = "fetch"
     THEN [st1 EXCEPT !.inflight =
             Append(@, [t |-> t, level |-> percentage, cur |-> TRUE,
                        seq |-> IF traced THEN st1.n ELSE 0])]
     ELSE Resume([t |-> t, level |-> percentage, cur |-> TRUE,
                  seq |-> IF traced THEN st1.n ELSE 0], FALSE, st1)

RECURSIVE FireAll(_, _, _, _)
FireAll(sel, percentage, c, st) ==
  IF sel = <<>> THEN st
  ELSE FireAll(Tail(sel), percentage, c, Fire(Head(sel), percentage, c, st))

SkipsInStandbyOnly(c, charging) == ~c.isMonitoring

\* line 82
Skips(c, charging) == charging \/ ~c.isMonitoring

\* lines 81-111, c being the closure's captured isMonitoring and settings
checkAndNotify(c, level, charging, st) ==
  IF st.hung THEN st
  ELSE IF Skips(c, charging)
  THEN [st EXCEPT
          !.sent = Cleared(@),
          !.cf = IF charging THEN {} ELSE @,
          !.cd = IF charging THEN {} ELSE @,
          !.cfail = IF charging THEN {} ELSE @,
          !.inflight = IF charging
                       THEN [i \in 1..Len(@) |-> [@[i] EXCEPT !.cur = FALSE]]
                       ELSE @,
          !.evals = Append(@, [c |-> c, percentage |-> Round100(level),
                               charging |-> charging, sentBefore |-> {},
                               fired |-> <<>>])]
  ELSE IF ~Terminates(c.settings)
  THEN [st EXCEPT !.hung = TRUE]
  ELSE LET percentage == Round100(level)
           sel == Selected(Thresholds(c.settings), percentage, st.sent)
           st1 == [st EXCEPT !.evals =
                     Append(@, [c |-> c, percentage |-> percentage,
                                charging |-> charging, sentBefore |-> st.sent,
                                fired |-> sel])]
       IN FireAll(sel, percentage, c, st1)

RECURSIVE Dispatch(_, _, _, _)
\* a battery event: every registered listener runs update(m), lines 115-118
Dispatch(ls, level, charging, st) ==
  IF ls = <<>> THEN st
  ELSE Dispatch(Tail(ls), level, charging,
                checkAndNotify(Head(ls), level, charging, st))

Start(sentSet, logSeq, inflightSeq, n, cf, cd) ==
  [sent |-> sentSet, logs |-> logSeq, inflight |-> inflightSeq, n |-> n,
   cf |-> cf, cd |-> cd, evals |-> <<>>, hung |-> hung,
   nd |-> nDone, lr |-> lastResult, cfail |-> cycleFailed]

\* thresholds for which the calls of one step initiated an attempt
FiredIn(evals) ==
  UNION { SeqToSet(evals[i].fired) : i \in 1..Len(evals) }

Closure(mon, cfg) == [isMonitoring |-> mon, settings |-> cfg]

NoScen == [pos |-> 0, fired |-> <<>>]
NoResult == [done |-> 0, success |-> FALSE]
NoRecross == [seen |-> FALSE, armed |-> FALSE, pre |-> {}, late |-> {},
              percentage |-> 0, top |-> 0, fired |-> {}]

\* ------------------------------------------------------------------ Init
\* the state after mount: the first run of the battery effect has evaluated
\* the reading with isMonitoring = false and registered its listeners
\* the state after the first render, with the persisted settings drawn from
\* cfgs and the log this behaviour starts from
InitialMonitoringArmed == TRUE

\* useState(false), line 24
InitialMonitoring == FALSE

NoDiscard ==
  [logs |-> FALSE, sent |-> FALSE, armed |-> FALSE, held |-> FALSE]

\* the state once App has mounted and its effects have run, lines 10-35 and
\* 75-79, 113-128
Mounted(cfgs, logSeq, num, wl) ==
  /\ mounted = TRUE
  /\ hung = FALSE
  /\ hasWakeLock = wl
  /\ wakeLockRef = 0
  /\ wakeLockActive = FALSE
  /\ pendingLocks = {}
  /\ held = {}
  /\ nRequested = 0
  /\ crashed = FALSE
  /\ lockFailed = FALSE
  /\ testPending = 0
  /\ lastAlert = "none"
  /\ lastFetch = "none"
  /\ isMonitoring = InitialMonitoring
  /\ settings \in cfgs
  /\ m \in [level : Levels, charging : BOOLEAN]
  /\ listeners = <<Closure(InitialMonitoring, settings)>>
  /\ sent = {}
  /\ logs = logSeq
  /\ inflight = <<>>
  /\ nAttempts = 0
  /\ cycleFired = {}
  /\ cycleDup = {}
  /\ lastOp = "init"
  /\ lastEvals = <<>>
  /\ cycMono = FALSE
  /\ scen = NoScen
  /\ preCharge = {}
  /\ lateDone = {}
  /\ recross = NoRecross
  /\ armedFired = {}
  /\ standbyClean = FALSE
  /\ nDone = 0
  /\ lastResult = NoResult
  /\ cycleFailed = {}
  /\ traced = num
  /\ now = 0
  /\ storage = Stringify(settings)
  /\ discarded = NoDiscard

Init == Mounted(SavedSettings, <<>>, FALSE, FALSE)

\* ------------------------------------------------------- history helpers
Stale(fl) == [i \in 1..Len(fl) |-> [fl[i] EXCEPT !.cur = FALSE]]

RECURSIVE FiredPairs(_)
\* the attempts of one step as <<percentage, threshold>>, in call order
FiredPairs(evals) ==
  IF evals = <<>> THEN <<>>
  ELSE [i \in 1..Len(Head(evals).fired) |->
          <<Head(evals).percentage, Head(evals).fired[i]>>]
       \o FiredPairs(Tail(evals))

ScenLevels == <<30, 28, 24, 19>>
ScenConfig(cfg) ==
  cfg.initialThreshold = 25 /\ cfg.interval = 5 /\ cfg.finalThreshold = 1

\* the scenario after a sample of the given percentage was processed; clean
\* says that the sample met an Armed, non-charging core with no delivery
\* pending, fresh says that no threshold was fired or marked before it
ScenAfter(percentage, clean, fresh, evals) ==
  IF clean /\ scen.pos \in 1..3 /\ percentage = ScenLevels[scen.pos + 1]
  THEN [pos |-> scen.pos + 1, fired |-> scen.fired \o FiredPairs(evals)]
  ELSE IF clean /\ fresh /\ percentage = ScenLevels[1]
  THEN [pos |-> 1, fired |-> FiredPairs(evals)]
  ELSE NoScen

\* ------------------------------------------------------------ wake lock
\* The wake lock part of the state as a record w with the fields
\*   ref, active, pending, held, n, crashed.
Wake ==
  [ref |-> wakeLockRef, active |-> wakeLockActive, pending |-> pendingLocks,
   held |-> held, n |-> nRequested, crashed |-> crashed]

SetWake(w) ==
  /\ wakeLockRef' = w.ref
  /\ wakeLockActive' = w.active
  /\ pendingLocks' = w.pending
  /\ held' = w.held
  /\ nRequested' = w.n
  /\ crashed' = w.crashed
  /\ hasWakeLock' = hasWakeLock

\* lines 56-59: requestWakeLock up to its await
requestWakeLock(w) ==
  IF hasWakeLock
  THEN [w EXCEPT !.pending = @ \cup {w.n + 1}, !.n = @ + 1]
  ELSE w

ResolvedRefOnly(w, k) ==
  [w EXCEPT !.pending = @ \ {k}, !.ref = k, !.held = @ \cup {k}]

\* lines 59-60: request k resolved with its handle
Resolved(w, k) ==
  [w EXCEPT !.pending = @ \ {k}, !.ref = k, !.active = TRUE,
            !.held = @ \cup {k}]

\* lines 61-63: request k was rejected; the catch block only logs
Rejected(w, k) == [w EXCEPT !.pending = @ \ {k}]

\* What wakeLockRef.current.release() can do when called at line 69: return
\* its promise, or throw.  The promise is dropped, so whether it is
\* fulfilled or rejected makes no difference to the component ("ok").
ReleaseOutcomes(w) == IF w.ref = 0 THEN {"ok"} ELSE {"ok", "throws"}

\* lines 67-73: an exception of release() leaves releaseWakeLock at line 69
releaseWakeLock(w, outcome) ==
  IF w.ref = 0 THEN w
  ELSE IF outcome = "throws" THEN [w EXCEPT !.crashed = TRUE]
  ELSE [w EXCEPT !.held = @ \ {w.ref}, !.ref = 0, !.active = FALSE]

\* lines 75-79 after isMonitoring became mon: the cleanup of the previous
\* run of the effect, then its body
WakeEffect(mon, w, outcome) ==
  LET w1 == releaseWakeLock(w, outcome)
  IN IF w1.crashed THEN w1
     ELSE IF mon THEN requestWakeLock(w1)
     ELSE releaseWakeLock(w1, outcome)

\* no step of the component runs once it is unmounted, which is also what
\* React does to a tree without error boundary when an effect throws, nor
\* while a call keeps the main thread
Running == mounted /\ ~crashed /\ ~hung

\* --------------------------------------------------------------- actions
\* what a committed render with a new checkAndNotify does (lines 113-128):
\* update(m) with the new closure, then two more listeners
Commit(mon, cfg, st0, op) ==
  \E c \in {Closure(mon, cfg)} :
  \E st \in {checkAndNotify(c, m.level, m.charging, st0)} :
     /\ Running
     /\ Len(listeners) < MaxListeners
     /\ st.n <= MaxAttempts
     /\ mounted' = mounted
     /\ hung' = st.hung
     /\ UNCHANGED testVars
     /\ lastFetch' = "none"
     /\ isMonitoring' = mon
     /\ settings' = cfg
     /\ m' = m
     /\ listeners' = IF st.hung THEN listeners ELSE Append(listeners, c)
     /\ sent' = st.sent
     /\ logs' = st.logs
     /\ inflight' = st.inflight
     /\ nAttempts' = st.n
     /\ cycleFired' = st.cf
     /\ cycleDup' = st.cd
     /\ lastOp' = op
     /\ lastEvals' = st.evals
     /\ nDone' = st.nd
     /\ lastResult' = st.lr
     /\ cycleFailed' = st.cfail
     /\ traced' = traced
     /\ now' = now
     /\ storage' = Stringify(cfg)
     /\ discarded' = discarded
     /\ preCharge' = {}
     /\ lateDone' = {}
     /\ recross' = NoRecross
     /\ armedFired' = IF mon /\ ~m.charging THEN FiredIn(st.evals) ELSE {}

\* onClick={() => setIsMonitoring(!isMonitoring)}, line 154
Toggle ==
  /\ IF isMonitoring
     THEN Commit(FALSE, settings,
                 [Start(sent, logs, Stale(inflight), nAttempts, {}, {})
                    EXCEPT !.cfail = {}],
                 "toggle")
     ELSE Commit(TRUE, settings,
                 Start(sent, logs, inflight, nAttempts, cycleFired, cycleDup),
                 "toggle")
  /\ cycMono' = (~isMonitoring /\ cycleFired = {} /\ sent = {}
                 /\ inflight = <<>>)
  /\ scen' = NoScen
  /\ standbyClean' = (isMonitoring /\ ~m.charging)
  /\ \E outcome \in ReleaseOutcomes(Wake) :
       SetWake(WakeEffect(~isMonitoring, Wake, outcome))
  /\ lockFailed' = FALSE

Edit(cfg) ==
  /\ Commit(isMonitoring, cfg,
            Start(sent, logs, inflight, nAttempts, cycleFired, cycleDup),
            "edit")
  /\ cycMono' = FALSE
  /\ scen' = NoScen
  /\ standbyClean' = (standbyClean /\ ~m.charging)
  /\ UNCHANGED wakeVars

\* the Telegram Bot Token input, line 259
EditToken ==
  \E v \in Tokens \ {settings.telegramToken} :
    Edit([settings EXCEPT !.telegramToken = v])

\* the Telegram Chat ID input, line 261
EditChatId ==
  \E v \in ChatIds \ {settings.telegramChatId} :
    Edit([settings EXCEPT !.telegramChatId = v])

\* the Initial Threshold input, line 248: Number(e.target.value)
EditInitial ==
  \E v \in Starts \ {settings.initialThreshold} :
    Edit([settings EXCEPT !.initialThreshold = v])

\* the Interval input, line 253: Number(e.target.value), which is 0 for a
\* field that has been cleared
EditInterval ==
  \E v \in Steps \ {settings.interval} :
    Edit([settings EXCEPT !.interval = v])

\* a levelchange or chargingchange event with the manager reading mNew
Sample(mNew, op) ==
  \E st \in {Dispatch(listeners, mNew.level, mNew.charging,
                       Start(sent, logs, inflight, nAttempts,
                             cycleFired, cycleDup))} :
  LET percentage == Round100(mNew.level)
      clean == isMonitoring /\ ~mNew.charging /\ inflight = <<>>
               /\ ScenConfig(settings)
      fresh == cycleFired = {} /\ sent = {}
  IN /\ Running
     /\ st.n <= MaxAttempts
     /\ m' = mNew
     /\ UNCHANGED <<isMonitoring, settings, listeners, storage, discarded>>
     /\ UNCHANGED <<mounted, wakeVars, testVars>>
     /\ hung' = st.hung
     /\ lastFetch' = "none"
     /\ sent' = st.sent
     /\ logs' = st.logs
     /\ inflight' = st.inflight
     /\ nAttempts' = st.n
     /\ cycleFired' = st.cf
     /\ cycleDup' = st.cd
     /\ lastOp' = op
     /\ lastEvals' = st.evals
     /\ nDone' = st.nd
     /\ lastResult' = st.lr
     /\ cycleFailed' = st.cfail
     /\ traced' = traced
     /\ now' = now
     /\ cycMono' = IF mNew.charging THEN isMonitoring /\ inflight = <<>>
                   ELSE cycMono /\ inflight = <<>> /\ mNew.level <= m.level
     /\ scen' = ScenAfter(percentage, clean, fresh, st.evals)
     /\ standbyClean' = (standbyClean /\ ~mNew.charging)
     /\ armedFired' = IF mNew.charging \/ ~isMonitoring THEN {}
                      ELSE armedFired \cup FiredIn(st.evals)
     /\ IF mNew.charging
        THEN /\ preCharge' = IF m.charging THEN preCharge ELSE armedFired
             /\ lateDone' = IF m.charging THEN lateDone ELSE {}
             /\ recross' = NoRecross
        ELSE /\ preCharge' = {}
             /\ lateDone' = {}
             /\ recross' =
                  IF m.charging
                  THEN [seen |-> TRUE, armed |-> isMonitoring,
                        pre |-> preCharge, late |-> lateDone,
                        percentage |-> percentage,
                        top |-> Head(Thresholds(settings)),
                        fired |-> FiredIn(st.evals)]
                  ELSE NoRecross

\* m.addEventListener('levelchange', () => update(m)), line 124
LevelChange ==
  \E l \in Levels \ {m.level} : Sample([m EXCEPT !.level = l], "level")

\* m.addEventListener('chargingchange', () => update(m)), line 125
ChargingChange ==
  Sample([m EXCEPT !.charging = ~m.charging], "charging")

WithoutNone(fl, i) == fl

\* the suspended calls once call i has resumed
Without(fl, i) == SubSeq(fl, 1, i - 1) \o SubSeq(fl, i + 1, Len(fl))

\* the fetch of a suspended call ends, sendTelegramMessage returns, and
\* lines 99-108 run
DeliveryComplete ==
  \E i \in 1..Len(inflight), outcome \in FetchOutcomes :
    LET d  == inflight[i]
        st == Resume(d, Returned(outcome),
                     Start(sent, logs, inflight, nAttempts,
                           cycleFired, cycleDup))
    IN /\ Running
       /\ lastFetch' = IF traced THEN outcome ELSE "none"
       /\ UNCHANGED <<mounted, hung, wakeVars, testVars>>
       /\ sent' = st.sent
       /\ logs' = st.logs
       /\ nDone' = st.nd
       /\ lastResult' = st.lr
       /\ cycleFailed' = st.cfail
       /\ inflight' = Without(inflight, i)
       /\ lastOp' = "complete"
       /\ lastEvals' = <<>>
       /\ lateDone' = IF ~d.cur /\ d.t \in preCharge
                      THEN lateDone \cup {d.t} ELSE lateDone
       /\ UNCHANGED <<isMonitoring, settings, m, listeners, nAttempts,
                      cycleFired, cycleDup, cycMono, scen, preCharge,
                      recross, armedFired, standbyClean, traced, now,
                      storage, discarded>>

\* the promise of navigator.wakeLock.request settles: lines 59-60 run with
\* the new handle
LockGranted ==
  /\ \E k \in pendingLocks : SetWake(Resolved(Wake, k))
  /\ lockFailed' = lockFailed
  /\ lastOp' = "granted"
  /\ lastEvals' = <<>>
  /\ lastFetch' = "none"
  /\ UNCHANGED <<detVars, mounted, hung, testVars>>

\* the promise is rejected (NotAllowedError): the catch of lines 61-63 runs
LockDenied ==
  /\ \E k \in pendingLocks :
       /\ SetWake(Rejected(Wake, k))
       /\ lockFailed' = (lockFailed \/ (isMonitoring /\ k = nRequested))
  /\ lastOp' = "denied"
  /\ lastEvals' = <<>>
  /\ lastFetch' = "none"
  /\ UNCHANGED <<detVars, mounted, hung, testVars>>

\* teardown: the cleanup of the effect of lines 75-79 runs
Unmount ==
  /\ Running
  /\ mounted' = FALSE
  /\ \E outcome \in ReleaseOutcomes(Wake) :
       SetWake(releaseWakeLock(Wake, outcome))
  /\ lockFailed' = lockFailed
  /\ lastOp' = "unmount"
  /\ lastEvals' = <<>>
  /\ lastFetch' = "none"
  /\ UNCHANGED <<detVars, hung, testVars>>

TestLogsAppended(logSeq, percentage, success) ==
  AppendLog(logSeq,
            Identified(Stamped(LogEntry(percentage, 0, success), 0, 0), now))

\* the log after the handler of lines 266-267 has resumed: it calls alert
\* and no setLogs
TestLogs(logSeq, percentage, success) == logSeq

\* the test button, lines 265-268, up to its await; without a request the
\* handler resumes at once and shows the alert
TestFire ==
  /\ Running
  /\ IF sendTelegramMessage(settings.telegramToken,
                            settings.telegramChatId) = "fetch"
     THEN /\ testPending < MaxTests
          /\ testPending' = testPending + 1
          /\ lastAlert' = lastAlert
          /\ logs' = logs
     ELSE /\ testPending' = testPending
          /\ lastAlert' = "error"
          /\ logs' = TestLogs(logs, Round100(m.level), FALSE)
  /\ lastOp' = "test"
  /\ lastEvals' = <<>>
  /\ lastFetch' = "none"
  /\ UNCHANGED <<detButLogs, mounted, hung, wakeVars>>

\* the fetch of a test settles; line 268 shows the alert
TestComplete ==
  \E outcome \in FetchOutcomes :
    /\ Running
    /\ testPending > 0
    /\ testPending' = testPending - 1
    /\ lastAlert' = IF Returned(outcome) THEN "ok" ELSE "error"
    /\ logs' = TestLogs(logs, Round100(m.level), Returned(outcome))
    /\ lastFetch' = IF traced THEN outcome ELSE "none"
    /\ lastOp' = "testdone"
    /\ lastEvals' = <<>>
    /\ UNCHANGED <<detButLogs, mounted, hung, wakeVars>>

\* the page is closed or reloaded and opened again: the document with its
\* listeners, pending promises and wake locks is gone, localStorage is kept,
\* and App mounts anew
Restart ==
  /\ mounted' = TRUE
  /\ hung' = FALSE
  /\ hasWakeLock' = hasWakeLock
  /\ wakeLockRef' = 0
  /\ wakeLockActive' = FALSE
  /\ pendingLocks' = {}
  /\ held' = {}
  /\ nRequested' = 0
  /\ crashed' = FALSE
  /\ lockFailed' = FALSE
  /\ testPending' = 0
  /\ lastAlert' = "none"
  /\ lastFetch' = "none"
  /\ isMonitoring' = InitialMonitoring
  /\ settings' \in {Loaded(storage)}
  /\ m' \in [level : Levels, charging : BOOLEAN]
  /\ listeners' = <<Closure(InitialMonitoring, settings')>>
  /\ sent' = {}
  /\ logs' = <<>>
  /\ inflight' = <<>>
  /\ nAttempts' = 0
  /\ cycleFired' = {}
  /\ cycleDup' = {}
  /\ lastOp' = "init"
  /\ lastEvals' = <<>>
  /\ cycMono' = FALSE
  /\ scen' = NoScen
  /\ preCharge' = {}
  /\ lateDone' = {}
  /\ recross' = NoRecross
  /\ armedFired' = {}
  /\ standbyClean' = FALSE
  /\ nDone' = 0
  /\ lastResult' = NoResult
  /\ cycleFailed' = {}
  /\ traced' = traced
  /\ now' = 0
  /\ storage' = Stringify(settings')
  /\ discarded' = [logs |-> logs # <<>>, sent |-> sent # {},
                   armed |-> isMonitoring, held |-> held # {}]

\* a millisecond passes
Tick ==
  /\ Running
  /\ now < MaxClock
  /\ now' = now + 1
  /\ lastOp' = "tick"
  /\ lastEvals' = <<>>
  /\ lastFetch' = "none"
  /\ UNCHANGED <<detButNow, mounted, hung, wakeVars, testVars>>

Next ==
  \/ Toggle
  \/ EditToken
  \/ LevelChange
  \/ ChargingChange
  \/ DeliveryComplete

Spec == Init /\ [][Next]_vars

\* the steps that leave the settings alone
NextFixed ==
  \/ Toggle
  \/ LevelChange
  \/ ChargingChange
  \/ DeliveryComplete

\* A log one short of the cap: LogCap - 1 failed alerts of threshold 25 at
\* 19 %, as left by that many battery events of an armed monitor without a
\* token.  done counts appends from the start of the behaviour, so the
\* entries that are already there carry 0, -1, -2, ...; their ids are the
\* clock readings of as many earlier milliseconds
PrefilledLog ==
  [i \in 1..(LogCap - 1) |->
     Identified(Stamped(LogEntry(19, 25, FALSE), 0, 1 - i), 0 - i)]

InitLog == Mounted(SavedSettings, PrefilledLog, FALSE, FALSE)

SpecLog == InitLog /\ [][NextFixed]_vars

\* behaviours with a token that keep the history of single attempts
InitOrder ==
  Mounted({cfg \in SavedSettings : cfg.telegramToken # ""}, <<>>, TRUE,
          FALSE)

SpecOrder == InitOrder /\ [][NextFixed]_vars

\* a browser with the Screen Wake Lock API, no token
InitWake ==
  Mounted({cfg \in SavedSettings : cfg.telegramToken = ""}, <<>>, FALSE,
          TRUE)

NextWake ==
  \/ Toggle
  \/ LevelChange
  \/ ChargingChange
  \/ LockGranted
  \/ LockDenied
  \/ Unmount

SpecWake == InitWake /\ [][NextWake]_vars

\* every combination of token and chat id, edited and tried out
AnyCredentials ==
  {[DefaultSettings EXCEPT !.telegramToken = tok, !.telegramChatId = id] :
     tok \in Tokens, id \in ChatIds}

InitCreds == Mounted(AnyCredentials, <<>>, TRUE, FALSE)

NextCreds ==
  \/ Toggle
  \/ EditToken
  \/ EditChatId
  \/ TestFire
  \/ TestComplete
  \/ DeliveryComplete

SpecCreds == InitCreds /\ [][NextCreds]_vars

\* every stored configuration, and the two number inputs edited
InitConfig == Mounted(ConfigSpace, <<>>, FALSE, FALSE)

NextConfig ==
  \/ Toggle
  \/ EditInitial
  \/ EditInterval
  \/ ChargingChange

SpecConfig == InitConfig /\ [][NextConfig]_vars

\* a browser with the Screen Wake Lock API and both credentials stored:
\* samples, deliveries, lock requests, edits and tests side by side
InitAll ==
  Mounted({cfg \in SavedSettings : cfg.telegramToken # ""}, <<>>, FALSE, TRUE)

NextAll ==
  \/ Toggle
  \/ EditToken
  \/ ChargingChange
  \/ DeliveryComplete
  \/ LockDenied
  \/ TestFire

SpecAll == InitAll /\ [][NextAll]_vars

\* the main specification with the clock running
NextClock ==
  \/ NextFixed
  \/ Tick

SpecClock == Init /\ [][NextClock]_vars

\* a browser with the Screen Wake Lock API that is closed and opened again
NextRestart ==
  \/ Toggle
  \/ EditToken
  \/ ChargingChange
  \/ LockGranted
  \/ Restart

SpecRestart == InitWake /\ [][NextRestart]_vars

\* ---------------------------------------------------------------- claims
SampleOps == {"level", "charging"}

MaxOf(S) == CHOOSE x \in S : \A y \in S : y <= x

\* thresholds of a call's configuration that its sample has reached and that
\* the dedupe set did not hold when the call began
Eligible(e) ==
  { t \in SeqToSet(Thresholds(e.c.settings)) :
      e.percentage <= t /\ t \notin e.sentBefore }

\* C1: between two consecutive dedupe resets (a charging=true sample or a
\* disarm) no threshold has more than one alert attempt initiated for it.
C1_Orig == cycleDup = {}

\* C2: the threshold a call selected is in the dedupe set while the call's
\* delivery is pending (marked before the await), as long as no reset has
\* come since.
C2_Orig ==
  \A i \in 1..Len(inflight) : inflight[i].cur => inflight[i].t \in sent

\* C3: a sensor sample pushed while monitoring is Standby initiates no
\* Notifier call and appends no Log Entry.
C3_Orig ==
  [][(lastOp' \in SampleOps /\ ~isMonitoring')
       => (nAttempts' = nAttempts /\ logs' = logs)]_vars

\* C4: every pushed level/charging event causes exactly one Crossing Detector
\* evaluation, and that evaluation uses the current Monitoring State and the
\* current Configuration.
C4_Orig ==
  lastOp \in SampleOps
    => /\ Len(lastEvals) = 1
       /\ lastEvals[1].c = Closure(isMonitoring, settings)

\* C5: one Crossing Detector call on an Armed, non-charging sample initiates
\* at most one alert, and the threshold it selects is the highest threshold t
\* with percentage <= t that is not in the dedupe set, also when several
\* thresholds are eligible at once.
C5_HighestOnly ==
  \A i \in 1..Len(lastEvals) :
    LET e == lastEvals[i]
    IN (e.c.isMonitoring /\ ~e.charging)
         => /\ Len(e.fired) <= 1
            /\ Eligible(e) = {} => e.fired = <<>>
            /\ Eligible(e) # {} => e.fired = <<MaxOf(Eligible(e))>>

\* a call with two or more eligible thresholds fired the highest one only
C5_Witness ==
  \E i \in 1..Len(lastEvals) :
    LET e == lastEvals[i]
    IN /\ e.c.isMonitoring /\ ~e.charging
       /\ Cardinality(Eligible(e)) >= 2
       /\ e.fired = <<MaxOf(Eligible(e))>>

\* C6: with start=25, step=5, floor=1 the Armed, non-charging samples
\* 30, 28, 24, 19 processed one after another fire exactly two alerts:
\* threshold 25 at percentage 24 and threshold 20 at percentage 19.
C6_Orig ==
  scen.pos = 4 => scen.fired = << <<24, 25>>, <<19, 20>> >>

\* C7: in an Armed, monotonically non-increasing sequence of non-charging
\* samples processed one at a time within one discharge cycle each threshold
\* fires at most once.
C7_Orig == (cycMono /\ isMonitoring) => cycleDup = {}

\* C8: if threshold t fired in an Armed discharge cycle, a charging=true
\* sample followed by a non-charging sample with percentage <= t, t the
\* highest threshold, fires an alert for t again, whether the first delivery
\* for t returned before or after the charging sample.
C8_FiresAgain ==
  (recross.seen /\ recross.armed /\ recross.top \in recross.pre
     /\ recross.percentage <= recross.top)
    => recross.top \in recross.fired

\* t fired again although its first delivery returned after the charging sample
C8_Witness ==
  /\ recross.seen /\ recross.armed
  /\ recross.top \in recross.pre
  /\ recross.top \in recross.late
  /\ recross.percentage <= recross.top
  /\ recross.top \in recross.fired

\* C9: after Armed -> Standby -> Armed with no charging=true sample in
\* between, the dedupe set is empty when the first sample of the new Armed
\* session is evaluated.
C9_Orig ==
  [][(lastOp' = "toggle" /\ isMonitoring' /\ standbyClean) => sent = {}]_vars

\* C10: after a reset the dedupe set contains only thresholds selected after
\* the reset: a delivery initiated before the reset and returning after it
\* does not insert its threshold.
C10_Orig == sent \subseteq cycleFired

\* C11: the log never holds more than 50 entries, and the entry appended
\* last is the one at index 0.
C11_Capped ==
  /\ Len(logs) <= LogCap
  /\ nDone > 0 => logs[1].done = nDone

\* two appends to the log of 49: the second one found the log full and the
\* oldest entry is gone
C11_Witness ==
  /\ nDone = 2
  /\ Len(logs) = LogCap
  /\ logs[1].done = 2
  /\ logs[LogCap].done = 3 - LogCap

\* C12: once the Notifier has reported failure for threshold t, no further
\* delivery for t is attempted in the same discharge cycle.
C12_Orig ==
  [][\A t \in cycleFailed \cap cycleFailed' :
       t \notin FiredIn(lastEvals')]_vars

\* C13: every attempt whose Notifier call has returned has exactly one Log
\* Entry, an attempt still in flight has none, and the entry appended last
\* says sent exactly when the call returned success; a disarm in between
\* changes none of this.
LoggedAs(s) == {k \in DOMAIN logs : logs[k].seq = s}
InFlightAs(s) == {i \in DOMAIN inflight : inflight[i].seq = s}

C13_OneEntryEach ==
  /\ \A s \in 1..nAttempts :
       Cardinality(LoggedAs(s)) = IF InFlightAs(s) = {} THEN 1 ELSE 0
  /\ nDone > 0 =>
       /\ logs[1].done = lastResult.done
       /\ (logs[1].status = "sent") <=> lastResult.success

\* the only attempt was initiated while Armed, the monitor was disarmed
\* while it was in flight, and its success was logged in Standby
C13_Witness ==
  /\ lastOp = "complete"
  /\ ~isMonitoring /\ standbyClean /\ cycleFired = {}
  /\ nAttempts = 1
  /\ Len(logs) = 1 /\ logs[1].seq = 1 /\ logs[1].status = "sent"

\* C14: the Log Entries are in order of initiation, newest initiation first.
C14_Orig ==
  \A i, j \in DOMAIN logs : i < j => logs[i].seq > logs[j].seq

\* C14, amended: the Log Entries are in the order in which their Notifier
\* calls returned, newest return first.
C14_ByCompletion ==
  \A i, j \in DOMAIN logs : i < j => logs[i].done > logs[j].done

\* an attempt initiated earlier is logged above one initiated later
C14_Witness ==
  \E i, j \in DOMAIN logs :
    i < j /\ logs[i].seq < logs[j].seq /\ logs[i].done > logs[j].done

C16_Orig ==
  (Running /\ pendingLocks = {} /\ wakeLockRef # 0) => isMonitoring

\* C17: at most one acquired and not yet released wake-lock handle exists.
C17_Orig == Cardinality(held) <= 1

\* C18: when the acquisition requested by an arm has failed, the manager
\* holds no handle and monitoring is still Armed.
C18_Orig ==
  lockFailed => (isMonitoring /\ wakeLockRef = 0 /\ held = {})

\* C19: after a disarm or a teardown the manager is Released (reference
\* cleared, flag false), and no error has left releaseWakeLock.
C19_Orig ==
  /\ ~crashed
  /\ (lastOp = "unmount" \/ (lastOp = "toggle" /\ ~isMonitoring)) =>
       (wakeLockRef = 0 /\ ~wakeLockActive)

\* C20: a Notifier call with an empty token or an empty chat id returns
\* failure and issues no network request: the step that makes the call
\* leaves the pending requests as they were, and the caller gets false at
\* once (the test button alerts the error, checkAndNotify appends a failed
\* Log Entry).
NoCredentials(cfg) == cfg.telegramToken = "" \/ cfg.telegramChatId = ""

C20_NoRequest ==
  [][/\ (lastOp' = "test" /\ NoCredentials(settings')) =>
          (testPending' = testPending /\ lastAlert' = "error")
     /\ (lastOp' \in {"toggle", "edit"} /\ NoCredentials(settings')
           /\ nAttempts' > nAttempts) =>
          /\ inflight' = inflight
          /\ nDone' = nDone + 1
          /\ logs'[1].status = "failed"]_vars

\* with a token but no chat id, the test button reported the error and the
\* Start button logged a failed alert, and no request is pending
C20_Witness ==
  /\ settings.telegramToken # "" /\ settings.telegramChatId = ""
  /\ lastOp = "test" /\ lastAlert = "error" /\ testPending = 0
  /\ inflight = <<>>
  /\ logs # <<>> /\ logs[1].status = "failed"

\* C21: with both credentials set, a Notifier call issues exactly one
\* request and gives its caller nothing before that request has ended; when
\* it ends, the caller gets true exactly for a 2xx response, and false for
\* any other response and for an exception (the test button alerts "ok" or
\* the error, checkAndNotify logs sent or failed).
C21_OneRequest ==
  [][/\ (lastOp' = "test" /\ ~NoCredentials(settings')) =>
          (testPending' = testPending + 1 /\ lastAlert' = lastAlert)
     /\ (lastOp' \in {"toggle", "edit"} /\ ~NoCredentials(settings')
           /\ nAttempts' > nAttempts) =>
          /\ nAttempts' = nAttempts + 1
          /\ Len(inflight') = Len(inflight) + 1
          /\ logs' = logs
     /\ lastOp' = "testdone" =>
          /\ testPending' = testPending - 1
          /\ lastAlert' \in {"ok", "error"}
          /\ lastAlert' = "ok" <=> lastFetch' = "2xx"
     /\ lastOp' = "complete" =>
          /\ Len(inflight') = Len(inflight) - 1
          /\ nDone' = nDone + 1
          /\ logs'[1].status \in {"sent", "failed"}
          /\ logs'[1].status = "sent" <=> lastFetch' = "2xx"]_vars

\* a test whose request ended with an exception reported the error
C21_Witness ==
  /\ lastOp = "testdone"
  /\ lastFetch = "exception"
  /\ lastAlert = "error"
  /\ ~NoCredentials(settings)

\* the configurations the component has been given: the current one and
\* those captured by the closures that listen
Configs == {settings} \cup {listeners[i].settings : i \in DOMAIN listeners}

\* the configurations whose Threshold Set a call of the last step has built
\* (a call that returns at line 82 builds none)
Built ==
  {lastEvals[i].c.settings :
     i \in {j \in DOMAIN lastEvals :
              lastEvals[j].c.isMonitoring /\ ~lastEvals[j].charging}}

Descending(cfg) == cfg.finalThreshold < cfg.initialThreshold /\ cfg.interval > 0

CeilDiv(a, b) == (a + b - 1) \div b

\* C22: for every configuration with floor < startThreshold and step > 0 the
\* Threshold Set is strictly descending, begins with startThreshold, ends
\* with floor, and its other elements are exactly the values
\* startThreshold - k*step that are greater than floor.
C22_Descending ==
  \A cfg \in Configs :
    Descending(cfg) =>
      LET T == Thresholds(cfg)
          n == Len(T)
      IN /\ n >= 2
         /\ \A i \in 1..(n - 1) : T[i] > T[i + 1]
         /\ T[1] = cfg.initialThreshold
         /\ T[n] = cfg.finalThreshold
         /\ {T[i] : i \in 1..(n - 1)} =
              {x \in {cfg.initialThreshold - k * cfg.interval : k \in 0..MaxLoop} :
                 x > cfg.finalThreshold}

\* an Armed call has built the six thresholds of 25, 5, 1
C22_Witness ==
  /\ \E cfg \in Built :
       Descending(cfg) /\ Thresholds(cfg) = <<25, 20, 15, 10, 5, 1>>
  /\ \E cfg \in Configs : Descending(cfg) /\ Thresholds(cfg) = <<25, 1>>

\* C23 as stated: the floor entry is counted only when the sequence
\* startThreshold, startThreshold - step, ... does not land on floor; read
\* on the Threshold Sets that calls have built.
C23_Orig ==
  \A cfg \in Built :
    Descending(cfg) =>
      Len(Thresholds(cfg)) =
        CeilDiv(cfg.initialThreshold - cfg.finalThreshold, cfg.interval)
        + (IF (cfg.initialThreshold - cfg.finalThreshold) % cfg.interval = 0
           THEN 0 ELSE 1)

\* C23: for every configuration with floor < startThreshold and step > 0 the
\* Threshold Set has ceil((startThreshold - floor) / step) + 1 elements,
\* whether or not the sequence lands on floor: the loop of line 89 stops
\* before floor and line 88 has put floor in.
C23_Length ==
  \A cfg \in Configs :
    Descending(cfg) =>
      Len(Thresholds(cfg)) =
        CeilDiv(cfg.initialThreshold - cfg.finalThreshold, cfg.interval) + 1

\* an Armed call has built the Threshold Set of 25, 24, 1, whose sequence
\* lands on the floor
C23_Witness ==
  \E cfg \in Built :
    /\ Descending(cfg)
    /\ (cfg.initialThreshold - cfg.finalThreshold) % cfg.interval = 0
    /\ Len(Thresholds(cfg)) = 2

\* C24 as stated: with step <= 0 building the Threshold Set terminates and
\* yields exactly [floor], and the detector call that builds it completes:
\* no call stays in the loop of line 89, and what a call has built for such
\* a configuration is [floor].
C24_Orig ==
  /\ ~hung
  /\ \A cfg \in Built :
       cfg.interval <= 0 => Thresholds(cfg) = <<cfg.finalThreshold>>

FloorOnly(cfg) == cfg.initialThreshold <= cfg.finalThreshold /\ cfg.interval > 0

\* C25 as stated: when the configuration has startThreshold <= floor (and
\* step > 0) its Threshold Set is exactly [floor], and a sample processed
\* while Armed and not charging initiates a delivery only when its
\* percentage is at most floor.
C25_Orig ==
  [][FloorOnly(settings') =>
       /\ Thresholds(settings') = <<settings'.finalThreshold>>
       /\ (/\ lastOp' \in SampleOps
           /\ isMonitoring' /\ ~m'.charging
           /\ settings' = settings
           /\ nAttempts' > nAttempts) =>
             Round100(m'.level) <= settings'.finalThreshold]_vars

\* C26 as stated: the Session Dedupe Set never holds more thresholds than
\* the Threshold Set of the current Configuration has.
C26_Orig ==
  Terminates(settings) => Cardinality(sent) <= Len(Thresholds(settings))

\* C27: processing a sample with charging = true, whatever its level and
\* whatever the Monitoring State, initiates no Notifier call, appends no Log
\* Entry, and leaves the Session Dedupe Set empty when the handler returns.
C27_ChargingSkips ==
  [][(lastOp' \in SampleOps /\ m'.charging) =>
       /\ nAttempts' = nAttempts
       /\ Len(inflight') = Len(inflight)
       /\ logs' = logs
       /\ sent' = {}]_vars

\* a charging sample has been processed by an Armed monitor that had fired
\* thresholds in the discharge before it
C27_Witness ==
  /\ lastOp \in SampleOps
  /\ m.charging
  /\ isMonitoring
  /\ preCharge # {}
  /\ Len(listeners) >= 2
  /\ sent = {}

\* C28 as stated: an Armed non-charging sample for which no threshold is
\* selected (percentage above every threshold, or every threshold at or
\* above it already in the dedupe set) leaves the Session Dedupe Set and the
\* Event Log unchanged and makes no Notifier call.
C28_Orig ==
  [][(/\ lastOp' \in SampleOps
      /\ isMonitoring' /\ ~m'.charging
      /\ Selected(Thresholds(settings), Round100(m'.level), sent) = <<>>) =>
       /\ sent' = sent
       /\ logs' = logs
       /\ nAttempts' = nAttempts]_vars

\* C29 as stated: after a sample made several thresholds eligible and only
\* the highest fired, a later sample of the same discharge at the same or a
\* higher percentage fires nothing.
C29_Orig ==
  [][(/\ lastOp' \in SampleOps
      /\ isMonitoring' /\ ~m'.charging
      /\ isMonitoring /\ ~m.charging
      /\ armedFired # {}
      /\ m'.level >= m.level) =>
       nAttempts' = nAttempts]_vars

\* C30: the Monitoring State is Standby initially and changes only through
\* the toggle: samples, deliveries that succeed or fail, a denied wake lock,
\* configuration edits and the manual test leave it as it is.
C30_ToggleOnly ==
  /\ ~isMonitoring
  /\ [][IF lastOp' = "toggle" THEN isMonitoring' = ~isMonitoring
        ELSE isMonitoring' = isMonitoring]_vars

\* the monitor is Armed after its wake lock was denied, a delivery failed
\* and a test was made
C30_Witness ==
  /\ isMonitoring
  /\ lockFailed
  /\ lastOp = "denied"
  /\ lastAlert # "none"
  /\ \E i \in DOMAIN logs : logs[i].status = "failed"

\* C31: the manual test calls the Notifier once (one request when both
\* credentials are set, one immediate false otherwise) and no Crossing
\* Detector: pressing the button and the return of its delivery, successful
\* or not, leave the Session Dedupe Set, the Event Log and the Monitoring
\* State as they are, in Standby and while Armed.
C31_Bypass ==
  [][/\ lastOp' = "test" =>
          /\ testPending' - testPending
               = (IF NoCredentials(settings) THEN 0 ELSE 1)
          /\ NoCredentials(settings) => lastAlert' = "error"
     /\ lastOp' \in {"test", "testdone"} =>
          /\ lastEvals' = <<>>
          /\ sent' = sent
          /\ logs' = logs
          /\ isMonitoring' = isMonitoring
          /\ inflight' = inflight
          /\ nAttempts' = nAttempts]_vars

\* the delivery of a test has failed while the monitor is Armed, with a
\* threshold marked and an entry in the log
C31_Witness ==
  /\ lastOp = "testdone"
  /\ lastAlert = "error"
  /\ isMonitoring
  /\ sent # {}
  /\ logs # <<>>

Min(a, b) == IF a <= b THEN a ELSE b

\* C32: appending to the Event Log never modifies or reorders the entries
\* that are there: a step that appends k entries (one per call that resumes
\* in it) puts them at the front, the previous log cut to its first
\* LogCap - k entries follows unchanged, and what is dropped is the oldest
\* end; a step that appends nothing leaves the log as it is.
C32_Immutable ==
  [][LET k == nDone' - nDone
     IN /\ k >= 0
        /\ Len(logs') = Min(Len(logs) + k, LogCap)
        /\ \A i \in (k + 1)..Len(logs') : logs'[i] = logs[i - k]
        /\ \A i \in 1..Min(k, Len(logs')) : logs'[i].done = nDone' + 1 - i]_vars

\* two appends to a log that held LogCap - 1 entries: the newest is in front
\* and the oldest entry has been dropped
C32_Witness ==
  /\ Len(logs) = LogCap
  /\ nDone = 2
  /\ logs[1].done = 2
  /\ logs[2].done = 1
  /\ logs[LogCap].done = 3 - LogCap

\* C33 as stated: the Log Entries that are in the Event Log at one time
\* have pairwise distinct ids, also when their deliveries complete at the
\* same clock reading.
C33_Orig ==
  \A i, j \in DOMAIN logs : i # j => logs[i].id # logs[j].id

\* C34: across a restart only the Configuration survives: the restarted
\* process has the Configuration of the last edit, an empty Event Log, an
\* empty Session Dedupe Set, Monitoring State Standby, and holds no
\* wake-lock handle.
C34_OnlyConfig ==
  [][lastOp' = "init" =>
       /\ settings' = settings
       /\ logs' = <<>>
       /\ sent' = {}
       /\ inflight' = <<>>
       /\ ~isMonitoring'
       /\ wakeLockRef' = 0 /\ ~wakeLockActive' /\ held' = {}]_vars

\* a restart of an Armed monitor that held a wake lock, had logged alerts
\* and marked thresholds, with a token entered after the first start
C34_Witness ==
  /\ lastOp = "init"
  /\ settings.telegramToken # ""
  /\ discarded.armed
  /\ discarded.logs
  /\ discarded.sent
  /\ discarded.held

\* the dedupe set is the k highest thresholds of the current Configuration
TopK ==
  \E k \in 0..Len(Thresholds(settings)) :
    sent = {Thresholds(settings)[i] : i \in 1..k}

\* C35 as stated, in behaviours with a fixed Configuration whose calls end
\* before the next one begins (no token: no call is suspended on a fetch):
\* the Session Dedupe Set is always the k highest thresholds of the
\* Threshold Set, and within a discharge cycle thresholds fire in strictly
\* descending order: a sample of an Armed discharge fires only thresholds
\* below all those fired before it in the cycle.
C35_Orig ==
  /\ []TopK
  /\ [][(/\ lastOp' \in SampleOps
          /\ isMonitoring /\ ~m.charging
          /\ isMonitoring' /\ ~m'.charging) =>
           \A t \in FiredIn(lastEvals') : \A u \in cycleFired : t < u]_vars

\* a toggle or an edit has run one call of the new closure on the reading
\* the manager had, without an event
EvaluatedAtOnce ==
  [][lastOp' \in {"toggle", "edit"} =>
       /\ m' = m
       /\ Len(lastEvals') = 1
       /\ lastEvals'[1].c = Closure(isMonitoring', settings')
       /\ lastEvals'[1].percentage = Round100(m.level)
       /\ lastEvals'[1].charging = m.charging]_vars

\* C36 as stated: every toggle and every edit at once evaluates the current
\* reading with the new Monitoring State and Configuration, and arming
\* while discharging at a percentage at or below the highest threshold
\* fires an alert for that threshold in the same step.
C36_Orig ==
  /\ EvaluatedAtOnce
  /\ [][(/\ lastOp' = "toggle" /\ isMonitoring'
          /\ ~m.charging
          /\ Round100(m.level) <= Head(Thresholds(settings))) =>
           Head(Thresholds(settings)) \in FiredIn(lastEvals')]_vars

\* C37: every Log Entry records a level that is at most the threshold of
\* its message, and that level is the percentage of the sample that
\* initiated the attempt: a call that is suspended carries the percentage of
\* the reading it was made for, and the entry appended when it resumes has
\* the level and the threshold of that call, whatever the reading is by then.
C37_LevelOfSample ==
  /\ [](\A i \in DOMAIN logs : logs[i].level <= logs[i].threshold)
  /\ [][/\ \A i \in (Len(inflight) + 1)..Len(inflight') :
             inflight'[i].level = Round100(m'.level)
        /\ lastOp' = "complete" =>
             \E i \in DOMAIN inflight :
               /\ inflight[i].seq = logs'[1].seq
               /\ inflight[i].level = logs'[1].level
               /\ inflight[i].t = logs'[1].threshold]_vars

\* a delivery initiated at 19 % has returned while the battery reads 30 %
C37_Witness ==
  /\ lastOp = "complete"
  /\ logs[1].level = 19
  /\ Round100(m.level) = 30

\* C38: between the steps of the manager the wake-lock active flag and the
\* stored handle agree: the flag is true iff the handle reference is not
\* null, after any sequence of granted or denied acquisitions and releases.
C38_FlagIffHandle ==
  mounted => (wakeLockActive <=> wakeLockRef # 0)

\* a request has been granted after a second one was made: the handle is
\* stored and the flag is set
C38_Witness ==
  /\ lastOp = "granted"
  /\ mounted
  /\ nRequested >= 2
  /\ wakeLockActive
  /\ wakeLockRef # 0

TypeOK ==
  /\ isMonitoring \in BOOLEAN
  /\ Len(listeners) <= MaxListeners
  /\ nAttempts <= MaxAttempts
  /\ Len(logs) + Len(inflight) = nAttempts

====
